---- MODULE Spec2Model ----
(***************************************************************************)
(* Model of module_word2vec/main_word2vec.py: the Word2Vec option parser   *)
(* subclass whose run() reads a corpus, dispatches on --method to the      *)
(* external trainers and writes the vector space of terms (VST).           *)
(*                                                                         *)
(* Python strings are modelled as sequences of one-character strings, so   *)
(* that str.strip(), str.lower(), `in` and str.endswith() are computed.    *)
(* An optional value (None or a string) is a set with at most one element. *)
(***************************************************************************)
EXTENDS Integers, Sequences, FiniteSets, TLC

VARIABLES options, args, content, pc, fileIdx, corpus, vst_model, VST,
          vstAssignments, openHandles, outFiles, error, log

vars == <<options, args, content, pc, fileIdx, corpus, vst_model, VST,
          vstAssignments, openHandles, outFiles, error, log>>

----------------------------------------------------------------------------
(* Bounds of the model *)

MaxTotalLines == 3

MaxFiles == 2

MaxPipelineLines == 1

----------------------------------------------------------------------------
(* Strings *)

Whitespace == {" ", "\t", "\n"}

UpperCase == <<"A","B","C","D","E","F","G","H","I","J","K","L","M",
               "N","O","P","Q","R","S","T","U","V","W","X","Y","Z">>

LowerCase == <<"a","b","c","d","e","f","g","h","i","j","k","l","m",
               "n","o","p","q","r","s","t","u","v","w","x","y","z">>

LowerChar(c) ==
  IF \E i \in DOMAIN UpperCase : UpperCase[i] = c
  THEN LowerCase[CHOOSE i \in DOMAIN UpperCase : UpperCase[i] = c]
  ELSE c

\* str.lower()
Lower(s) == [i \in DOMAIN s |-> LowerChar(s[i])]

\* sub in s
Contains(sub, s) ==
  \E i \in 0..(Len(s) - Len(sub)) : SubSeq(s, i + 1, i + Len(sub)) = sub

\* s.endswith(suffix)
EndsWith(s, suffix) ==
  /\ Len(s) >= Len(suffix)
  /\ SubSeq(s, Len(s) - Len(suffix) + 1, Len(s)) = suffix

RECURSIVE LStrip(_)
LStrip(s) ==
  IF s = <<>> THEN s
  ELSE IF Head(s) \in Whitespace THEN LStrip(Tail(s)) ELSE s

RECURSIVE RStrip(_)
RStrip(s) ==
  IF s = <<>> THEN s
  ELSE IF s[Len(s)] \in Whitespace THEN RStrip(SubSeq(s, 1, Len(s) - 1)) ELSE s

StripLeftOnly(s) == LStrip(s)

\* str.strip()
Strip(s) == RStrip(LStrip(s))

SeqsUpTo(S, n) == UNION {[1..k -> S] : k \in 0..n}

----------------------------------------------------------------------------
(* Program constants *)

WORD2VEC == <<"w","o","r","d","2","v","e","c">>

FASTTEXT == <<"f","a","s","t","t","e","x","t">>

OPTIMIZED == <<"o","p","t","i","m","i","z","e","d">>

GZ == <<".","g","z">>

Unset == "unset"

NoError == "none"

----------------------------------------------------------------------------
(* Inputs *)

\* the lines `for line in f` yields: each ends with its newline, except
\* possibly the last line of a stream
Lines ==
  { <<"\n">>,
    <<" ", "\n">>,
    <<"a", "\n">>,
    <<" ", "a", "\t", "\n">>,
    <<"a", " ", "b">> }

FileNames == <<"corpus1", "corpus2", "corpus3", "corpus4">>

Stdin == "stdin"

MethodNames ==
  { WORD2VEC,
    <<"F","a","s","t","T","e","x","t">>,
    FASTTEXT \o <<"_">> \o OPTIMIZED,
    <<"g","l","o","v","e">> }

JsonPaths == { <<"v",".","j","s","o","n">>, <<"v",".","g","z">> }

TxtPaths == { <<"v",".","t","x","t">> }

BinPaths == { <<"v",".","b","i","n">> }

Optional(S) == {{}} \cup {{x} : x \in S}

Options ==
  [method : Optional(MethodNames), json : Optional(JsonPaths),
   txt : Optional(TxtPaths), bin : Optional(BinPaths)]

\* optparse defaults: --method, --json, --txt and --bin all default to None
DefaultOptions == [method |-> {}, json |-> {}, txt |-> {}, bin |-> {}]

StreamNames(a) == IF a = <<>> THEN {Stdin} ELSE {a[i] : i \in DOMAIN a}

Streams(a) == IF a = <<>> THEN <<Stdin>> ELSE a

\* the streams of a command line: all the lines, cut into consecutive files
Cuts(n, len) ==
  {c \in [0..n -> 0..len] :
     /\ c[0] = 0
     /\ c[n] = len
     /\ \A i \in 1..n : c[i - 1] <= c[i]}

ContentOf(a, all, c) ==
  [fn \in StreamNames(a) |->
     LET i == CHOOSE j \in DOMAIN Streams(a) : Streams(a)[j] = fn
     IN  SubSeq(all, c[i - 1] + 1, c[i])]

----------------------------------------------------------------------------
(* Corpus reader: readCorpus *)

FlushAlways(c, sentence) == Append(c, sentence)

\* if len(current_sentence) > 0: self.corpus.append(current_sentence)
FlushSentence(c, sentence) ==
  IF Len(sentence) > 0 THEN Append(c, sentence) ELSE c

LoopBodyNoStrip(st, rawLine) ==
  IF rawLine = <<>>
  THEN [corpus |-> FlushSentence(st.corpus, st.cur), cur |-> <<>>]
  ELSE [corpus |-> st.corpus, cur |-> Append(st.cur, rawLine)]

\* one iteration of `for line in f`
LoopBody(st, rawLine) ==
  LET line == Strip(rawLine)
  IN  IF line = <<>>
      THEN [corpus |-> FlushSentence(st.corpus, st.cur), cur |-> <<>>]
      ELSE [corpus |-> st.corpus, cur |-> Append(st.cur, line)]

\* the loop of readCorpus over the lines of a stream
RECURSIVE LoopOver(_, _)
LoopOver(st, lines) ==
  IF lines = <<>> THEN st
  ELSE LoopOver(LoopBody(st, Head(lines)), Tail(lines))

ReadCorpusNoEndFlush(c, lines) ==
  LoopOver([corpus |-> c, cur |-> <<>>], lines).corpus

\* readCorpus(f) run to the end of the stream: the corpus it leaves
ReadCorpus(c, lines) ==
  LET st == LoopOver([corpus |-> c, cur |-> <<>>], lines)
  IN  FlushSentence(st.corpus, st.cur)

\* readCorpus(f) interrupted by an exception raised by the k+1-th read
ReadCorpusPartial(c, lines, k) ==
  LoopOver([corpus |-> c, cur |-> <<>>], SubSeq(lines, 1, k)).corpus

----------------------------------------------------------------------------
(* Initial state: after parse_args(), before readCorpusFiles(args) *)

Init ==
  /\ \E n \in 0..MaxFiles :
       \E all \in SeqsUpTo(Lines, MaxTotalLines) :
         \E c \in Cuts(IF n = 0 THEN 1 ELSE n, Len(all)) :
           /\ args = SubSeq(FileNames, 1, n)
           /\ content = ContentOf(SubSeq(FileNames, 1, n), all, c)
           /\ options \in Options
           /\ (options = DefaultOptions \/ Len(all) <= MaxPipelineLines)
  /\ pc = "read"
  /\ fileIdx = 1
  /\ corpus = <<>>
  /\ vst_model = Unset
  /\ VST = Unset
  /\ vstAssignments = 0
  /\ openHandles = {}
  /\ outFiles = [k \in {"json", "txt", "bin"} |-> "absent"]
  /\ error = NoError
  /\ log = <<>>

----------------------------------------------------------------------------
(* run(): the statements in program order *)

SuccessorBinBeforeTxt(stage) ==
  CASE stage = "read" -> "word2vec"
    [] stage = "word2vec" -> "fasttext"
    [] stage = "fasttext" -> "optimized"
    [] stage = "optimized" -> "writeJSON"
    [] stage = "writeJSON" -> "writeBin"
    [] stage = "writeBin" -> "writeTxt"
    [] stage = "writeTxt" -> "done"

\* the statement that follows a stage of run() / buildVector()
Successor(stage) ==
  CASE stage = "read" -> "word2vec"
    [] stage = "word2vec" -> "fasttext"
    [] stage = "fasttext" -> "optimized"
    [] stage = "optimized" -> "writeJSON"
    [] stage = "writeJSON" -> "writeTxt"
    [] stage = "writeTxt" -> "writeBin"
    [] stage = "writeBin" -> "done"

----------------------------------------------------------------------------
(* readCorpusFiles *)

Raise(kind) ==
  /\ pc' = "error"
  /\ error' = kind

\* readCorpusFiles([]): self.readCorpus(stdin); return
ReadStdin ==
  /\ pc = "read"
  /\ Len(args) = 0
  /\ \/ /\ corpus' = ReadCorpus(corpus, content[Stdin])
        /\ log' = Append(log, Stdin)
        /\ pc' = Successor("read")
        /\ UNCHANGED error
     \/ \E k \in 0..Len(content[Stdin]) :
          /\ corpus' = ReadCorpusPartial(corpus, content[Stdin], k)
          /\ Raise("IOError")
          /\ UNCHANGED log
  /\ UNCHANGED <<options, args, content, fileIdx, vst_model, VST,
                 vstAssignments, openHandles, outFiles>>

\* one iteration of `for fn in fileNames`: open, readCorpus, close
ReadFile ==
  /\ pc = "read"
  /\ fileIdx <= Len(args)
  /\ LET fn == args[fileIdx]
     IN  \/ \* f = open(fn) raises
            /\ Raise("IOError")
            /\ UNCHANGED <<corpus, openHandles, fileIdx, log>>
         \/ \* an exception inside readCorpus(f): f.close() is not reached
            \E k \in 0..Len(content[fn]) :
              /\ corpus' = ReadCorpusPartial(corpus, content[fn], k)
              /\ openHandles' = openHandles \cup {fn}
              /\ Raise("IOError")
              /\ UNCHANGED <<fileIdx, log>>
         \/ /\ corpus' = ReadCorpus(corpus, content[fn])
            /\ openHandles' = openHandles \ {fn}
            /\ fileIdx' = fileIdx + 1
            /\ log' = Append(log, fn)
            /\ pc' = IF fileIdx = Len(args) THEN Successor("read") ELSE "read"
            /\ UNCHANGED error
  /\ UNCHANGED <<options, args, content, vst_model, VST, vstAssignments,
                 outFiles>>

----------------------------------------------------------------------------
(* buildVector *)

\* method != None and name in method.lower()
Selected(name) == \E m \in options.method : Contains(name, Lower(m))

\* dict((k, ...self.vst_model.wv[k]) for k in self.vst_model.wv.vocab.keys()):
\* the VST holds the vectors of the model it was read from
VectorsOf(model) == model

\* if method != None and "word2vec" in method.lower()
TrainWord2Vec ==
  /\ pc = "word2vec"
  /\ IF Selected(WORD2VEC)
     THEN /\ log' = Append(log, "word2vec")
          /\ \/ /\ vst_model' = "Word2Vec"
                /\ VST' = VectorsOf("Word2Vec")
                /\ vstAssignments' = vstAssignments + 1
                /\ pc' = Successor(pc)
                /\ UNCHANGED error
             \/ \* gensim.models.Word2Vec(...) raises
                /\ Raise("TrainingError")
                /\ UNCHANGED <<vst_model, VST, vstAssignments>>
     ELSE /\ pc' = Successor(pc)
          /\ UNCHANGED <<vst_model, VST, vstAssignments, error, log>>
  /\ UNCHANGED <<options, args, content, fileIdx, corpus, openHandles, outFiles>>

\* if method != None and "fasttext" in method.lower()
TrainFastText ==
  /\ pc = "fasttext"
  /\ IF Selected(FASTTEXT)
     THEN /\ log' = Append(log, "fasttext")
          /\ vst_model' = "FastText"
          /\ \/ /\ VST' = VectorsOf("FastText")
                /\ vstAssignments' = vstAssignments + 1
                /\ pc' = Successor(pc)
                /\ UNCHANGED error
             \/ \* build_vocab() or train() raises
                /\ Raise("TrainingError")
                /\ UNCHANGED <<VST, vstAssignments>>
     ELSE /\ pc' = Successor(pc)
          /\ UNCHANGED <<vst_model, VST, vstAssignments, error, log>>
  /\ UNCHANGED <<options, args, content, fileIdx, corpus, openHandles, outFiles>>

\* if method != None and "fasttext" in method.lower() and "optimized" in method.lower()
\* The value of FastText_OPT.train(...) is not bound to anything.
TrainOptimized ==
  /\ pc = "optimized"
  /\ IF Selected(FASTTEXT) /\ Selected(OPTIMIZED)
     THEN /\ log' = Append(log, "optimized")
          /\ \/ /\ VST' = VectorsOf(vst_model)
                /\ vstAssignments' = vstAssignments + 1
                /\ pc' = Successor(pc)
                /\ UNCHANGED error
             \/ \* FastText_OPT.train(...) raises
                /\ Raise("TrainingError")
                /\ UNCHANGED <<VST, vstAssignments>>
     ELSE /\ pc' = Successor(pc)
          /\ UNCHANGED <<VST, vstAssignments, error, log>>
  /\ UNCHANGED <<options, args, content, fileIdx, corpus, vst_model,
                 openHandles, outFiles>>

----------------------------------------------------------------------------
(* Writers *)

NeverSkipped(fileName) == FALSE

\* if fileName is None: return
Skipped(fileName) == fileName = {}

\* fileName.endswith('.gz')
EndsWithGz(fileName) == \E p \in fileName : EndsWith(p, GZ)

\* the file is opened for writing and an exception leaves f.close() unreached
LeaveOpen(kind, exc) ==
  /\ outFiles' = [outFiles EXCEPT ![kind] = "empty"]
  /\ openHandles' = openHandles \cup {kind}
  /\ Raise(exc)

\* the file is opened, written and closed
WriteAndClose(kind) ==
  /\ outFiles' = [outFiles EXCEPT ![kind] = "written"]
  /\ openHandles' = openHandles \ {kind}
  /\ pc' = Successor(pc)
  /\ UNCHANGED error

Return ==
  /\ pc' = Successor(pc)
  /\ UNCHANGED <<outFiles, openHandles, error>>

WriteJSON ==
  /\ pc = "writeJSON"
  /\ log' = Append(log, "writeJSON")
  /\ IF Skipped(options.json)
     THEN Return
     ELSE \/ \* gzip.open / open raises
             /\ Raise("IOError")
             /\ UNCHANGED <<outFiles, openHandles>>
          \/ \* json.dumps(self.VST): the attribute was never assigned
             /\ VST = Unset
             /\ LeaveOpen("json", "AttributeError")
          \/ \* open(fileName, 'w') is a text file: f.write(bytes) raises
             /\ VST # Unset
             /\ ~EndsWithGz(options.json)
             /\ LeaveOpen("json", "TypeError")
          \/ /\ VST # Unset
             /\ EndsWithGz(options.json)
             /\ \/ WriteAndClose("json")
                \/ LeaveOpen("json", "IOError")
  /\ UNCHANGED <<options, args, content, fileIdx, corpus, vst_model, VST,
                 vstAssignments>>

WriteTxt ==
  /\ pc = "writeTxt"
  /\ log' = Append(log, "writeTxt")
  /\ IF Skipped(options.txt)
     THEN Return
     ELSE \/ \* open raises
             /\ Raise("IOError")
             /\ UNCHANGED <<outFiles, openHandles>>
          \/ \* self.VST.items(): the attribute was never assigned
             /\ VST = Unset
             /\ LeaveOpen("txt", "AttributeError")
          \/ /\ VST # Unset
             /\ \/ WriteAndClose("txt")
                \/ LeaveOpen("txt", "IOError")
  /\ UNCHANGED <<options, args, content, fileIdx, corpus, vst_model, VST,
                 vstAssignments>>

WriteBin ==
  /\ pc = "writeBin"
  /\ log' = Append(log, "writeBin")
  /\ IF Skipped(options.bin)
     THEN Return
     ELSE \/ \* self.vst_model: the attribute was never assigned
             /\ vst_model = Unset
             /\ Raise("AttributeError")
             /\ UNCHANGED <<outFiles, openHandles>>
          \/ /\ vst_model # Unset
             /\ \/ /\ outFiles' = [outFiles EXCEPT !["bin"] = "written"]
                   /\ pc' = Successor(pc)
                   /\ UNCHANGED <<openHandles, error>>
                \/ \* self.vst_model.save(fileName) raises
                   /\ Raise("IOError")
                   /\ UNCHANGED <<outFiles, openHandles>>
  /\ UNCHANGED <<options, args, content, fileIdx, corpus, vst_model, VST,
                 vstAssignments>>

----------------------------------------------------------------------------

Next ==
  \/ ReadStdin
  \/ ReadFile
  \/ TrainWord2Vec
  \/ TrainFastText
  \/ TrainOptimized
  \/ WriteJSON
  \/ WriteTxt
  \/ WriteBin

Spec == Init /\ [][Next]_vars

----------------------------------------------------------------------------
(* Vocabulary of the properties *)

\* every stream of the command line has been read to its end
ReadComplete == Len(log) >= Len(Streams(args))

\* the number of streams read to their end; the last of them is the
\* stream of the latest completed readCorpus call
ReadCount == IF ReadComplete THEN Len(Streams(args)) ELSE Len(log)

\* the stream the next readCorpus call consumes
CurrentStream == Streams(args)[fileIdx]

IsBlankLine(l) == \A i \in DOMAIN l : l[i] \in Whitespace

AllBlank(lines) == \A i \in DOMAIN lines : IsBlankLine(lines[i])

\* t is l without its leading and trailing whitespace, l not blank
IsStrippedOf(t, l) ==
  \E i \in DOMAIN l : \E j \in DOMAIN l :
    /\ i <= j
    /\ t = SubSeq(l, i, j)
    /\ l[i] \notin Whitespace
    /\ l[j] \notin Whitespace
    /\ \A k \in DOMAIN l : (k < i \/ k > j) => l[k] \in Whitespace

IsPrefix(s, t) == Len(s) <= Len(t) /\ SubSeq(t, 1, Len(s)) = s

Last(s) == s[Len(s)]

\* the method option is unset or names neither trainer
Unrecognized == ~Selected(WORD2VEC) /\ ~Selected(FASTTEXT)

AfterBuildVector == pc \in {"writeJSON", "writeTxt", "writeBin", "done"}

FileA == content[args[1]]

FileB == content[args[2]]

BlankLine == <<"\n">>

\* no sentence runs across the boundary between file A and file B
BoundarySplitsNothing ==
  \/ FileA = <<>>
  \/ FileB = <<>>
  \/ IsBlankLine(Last(FileA))
  \/ IsBlankLine(FileB[1])

----------------------------------------------------------------------------
(* C1 *)

\* C1 as stated: reading file A then file B leaves the corpus that one
\* readCorpus call over the lines of A followed by the lines of B leaves.
C1_Original ==
  (Len(args) = 2 /\ ReadComplete) =>
     corpus = ReadCorpus(<<>>, FileA \o FileB)

\* C1 amended: reading file A then file B leaves the corpus of one readCorpus
\* call over A, a blank line, then B; it is the corpus of A followed by B
\* whenever A is empty or ends with a blank line, or B is empty or begins
\* with a blank line.
C1_Amended ==
  (Len(args) = 2 /\ ReadComplete) =>
     /\ corpus = ReadCorpus(<<>>, FileA \o <<BlankLine>> \o FileB)
     /\ BoundarySplitsNothing => corpus = ReadCorpus(<<>>, FileA \o FileB)

C1_Witness ==
  /\ Len(args) = 2
  /\ pc = "done"
  /\ FileA # <<>>
  /\ FileB # <<>>
  /\ BoundarySplitsNothing
  /\ Len(corpus) = 2

----------------------------------------------------------------------------
(* C2 *)

\* C2: with the method unset or unrecognized, run() never completes
\* normally, and once the corpus is read it ends in a configuration error
\* whatever the output options are.
C2_Claim ==
  Unrecognized =>
     /\ pc # "done"
     /\ (pc = "error" /\ ReadComplete) => error = "ConfigurationError"

----------------------------------------------------------------------------
(* C3 *)

\* C3: a single stream of N >= 1 non-blank lines followed by one blank line
\* leaves exactly one sentence, whose tokens are the N stripped lines in
\* order; and a stream read to its end whose last line is not blank leaves,
\* as the last sentence of the corpus, the stripped lines that follow its
\* last blank line.
C3_Reader ==
  (ReadCount >= 1 /\ (pc = "error" => ReadComplete)) =>
    LET lines == content[Streams(args)[ReadCount]]
        n == Len(lines) - 1
        blanks == {i \in DOMAIN lines : IsBlankLine(lines[i])}
        start == IF blanks = {} THEN 0
                 ELSE CHOOSE i \in blanks : \A j \in blanks : j <= i
    IN  /\ ( /\ Len(Streams(args)) = 1
             /\ n >= 1
             /\ blanks = {n + 1} ) =>
               /\ Len(corpus) = 1
               /\ Len(corpus[1]) = n
               /\ \A i \in 1..n : IsStrippedOf(corpus[1][i], lines[i])
        /\ ( /\ lines # <<>>
             /\ ~IsBlankLine(Last(lines)) ) =>
               /\ corpus # <<>>
               /\ Len(Last(corpus)) = Len(lines) - start
               /\ \A i \in 1..(Len(lines) - start) :
                     IsStrippedOf(Last(corpus)[i], lines[start + i])

C3_Witness ==
  /\ pc = "done"
  /\ Len(Streams(args)) = 1
  /\ Len(content[Streams(args)[1]]) = 3
  /\ ~IsBlankLine(content[Streams(args)[1]][1])
  /\ ~IsBlankLine(content[Streams(args)[1]][2])
  /\ content[Streams(args)[1]][2][1] \in Whitespace
  /\ IsBlankLine(content[Streams(args)[1]][3])
  /\ Len(corpus) = 1
  /\ Len(corpus[1]) = 2

----------------------------------------------------------------------------
(* C4 *)

C4_Step ==
  (pc = "read" /\ AllBlank(content[CurrentStream])) => corpus' = corpus

C4_End ==
  (ReadComplete /\ \A fn \in StreamNames(args) : AllBlank(content[fn])) =>
     corpus = <<>>

\* C4: a readCorpus call on a stream that is empty or holds only blank lines
\* leaves the corpus as it was, and a run all of whose streams are such ends
\* its reading with an empty corpus.
C4_BlankStreams == [][C4_Step]_vars /\ []C4_End

C4_Witness ==
  /\ pc = "done"
  /\ Len(args) = 2
  /\ FileA # <<>>
  /\ FileB # <<>>
  /\ AllBlank(FileA)
  /\ AllBlank(FileB)
  /\ \E i \in DOMAIN FileB : Len(FileB[i]) > 1
  /\ corpus = <<>>

----------------------------------------------------------------------------
(* C5 *)

OutputKinds == {"json", "txt", "bin"}

C5_OnlyRequested ==
  \A k \in OutputKinds :
     options[k] = {} => (outFiles[k] = "absent" /\ k \notin openHandles)

C5_SkipStep ==
  \A k \in OutputKinds :
     ( /\ options[k] = {}
       /\ \/ (k = "json" /\ pc = "writeJSON")
          \/ (k = "txt" /\ pc = "writeTxt")
          \/ (k = "bin" /\ pc = "writeBin") ) =>
        /\ UNCHANGED <<VST, vst_model, outFiles, openHandles, error>>
        /\ pc' # "error"

\* C5: an output file is opened or created only if its own path option was
\* given, and a writer called with None returns without opening a file and
\* without touching the VST or the model.
C5_Writers == []C5_OnlyRequested /\ [][C5_SkipStep]_vars

C5_Witness ==
  /\ pc = "done"
  /\ options.txt # {}
  /\ options.json = {}
  /\ options.bin = {}
  /\ outFiles = [json |-> "absent", txt |-> "written", bin |-> "absent"]

----------------------------------------------------------------------------
(* C6 *)

\* C6: once the operation that opened a file handle has returned or failed,
\* the handle is closed: between the operations of run() and at its end no
\* handle is open.
C6_Claim == openHandles = {}

----------------------------------------------------------------------------
(* C7 *)

\* C7: for a method naming both "fasttext" and "optimized", the model and
\* the VST retained when buildVector returns are those of the optimized
\* external trainer.
C7_Claim ==
  (Selected(FASTTEXT) /\ Selected(OPTIMIZED) /\ AfterBuildVector) =>
     /\ vst_model = "FastText_OPT"
     /\ VST = VectorsOf("FastText_OPT")

----------------------------------------------------------------------------
(* C8 *)

\* C8: in a run the VST is assigned at most once, whatever the method name.
C8_Claim == vstAssignments <= 1

----------------------------------------------------------------------------
(* C9 *)

Rank(stage) ==
  CASE stage = "word2vec" -> 1
    [] stage = "fasttext" -> 2
    [] stage = "optimized" -> 3
    [] stage = "writeJSON" -> 4
    [] stage = "writeTxt" -> 5
    [] stage = "writeBin" -> 6
    [] OTHER -> 0

LogHas(stage) == \E i \in DOMAIN log : log[i] = stage

C9_Order ==
  /\ \A i \in DOMAIN log : \A j \in DOMAIN log :
        (i < j /\ Rank(log[j]) > 0) => Rank(log[i]) < Rank(log[j])
  /\ \A i \in DOMAIN log :
        IF i <= Len(Streams(args)) /\ (i <= ReadCount)
        THEN log[i] = Streams(args)[i]
        ELSE Rank(log[i]) > 0
  /\ (\E i \in DOMAIN log : Rank(log[i]) > 0) => ReadComplete
  /\ LogHas("writeTxt") => LogHas("writeJSON")
  /\ LogHas("writeBin") => LogHas("writeTxt")
  /\ (LogHas("writeJSON") /\ Selected(WORD2VEC)) => LogHas("word2vec")
  /\ (LogHas("writeJSON") /\ Selected(FASTTEXT)) => LogHas("fasttext")
  /\ (LogHas("writeJSON") /\ Selected(FASTTEXT) /\ Selected(OPTIMIZED)) =>
        LogHas("optimized")
  /\ pc = "done" => LogHas("writeBin")

C9_Fatal == pc = "error" => UNCHANGED <<pc, log, corpus, VST, vst_model, outFiles>>

\* C9: the streams are read in the order given before any training branch,
\* the training branches run before any writer, the writers are invoked in
\* the order JSON, text, binary, and nothing runs after an error.
C9_Pipeline == []C9_Order /\ [][C9_Fatal]_vars

C9_Witness ==
  /\ pc = "done"
  /\ Len(args) = 2
  /\ log = args \o <<"fasttext", "optimized", "writeJSON", "writeTxt", "writeBin">>
  /\ \A k \in OutputKinds : outFiles[k] = "written"

----------------------------------------------------------------------------
(* C10 *)

C10_WellFormed ==
  \A i \in DOMAIN corpus :
     /\ Len(corpus[i]) > 0
     /\ \A j \in DOMAIN corpus[i] :
           /\ Len(corpus[i][j]) > 0
           /\ corpus[i][j][1] \notin Whitespace
           /\ Last(corpus[i][j]) \notin Whitespace

C10_AppendOnly == IsPrefix(corpus, corpus')

\* C10: every sentence of the corpus is non-empty, every token is non-empty
\* without leading or trailing whitespace, and a readCorpus call leaves the
\* sentences appended before it as they were.
C10_Corpus == []C10_WellFormed /\ [][C10_AppendOnly]_vars

C10_Witness ==
  /\ pc = "done"
  /\ Len(args) = 2
  /\ Len(FileA) = 1
  /\ FileA[1][1] \in Whitespace
  /\ Len(FileB) = 2
  /\ IsBlankLine(FileB[1])
  /\ Len(corpus) = 2

====
